---- MODULE Spec2Model ----
(***************************************************************************)
(* Model of the MBTQ Auto-API backend services:                            *)
(*   DeafAuthService  (src/services/deafauth.py)   token and user store    *)
(*   FibonroseService (src/services/fibonrose.py)  event log and ledger    *)
(*   PinkSyncService  (src/services/pinksync.py)   deployment recorder     *)
(*   Settings         (src/config.py)              configured values       *)
(*                                                                         *)
(* Time is a logical clock counted in hours.  datetime.utcnow() reads the  *)
(* clock; one handler step reads it once (the clock's grain is coarser     *)
(* than the run time of a handler that does not suspend).                  *)
(***************************************************************************)
EXTENDS Integers, Sequences, FiniteSets, TLC

VARIABLES
    now,                 \* the clock datetime.utcnow() reads, in hours
    token_expiry_hours,  \* Settings.token_expiry_hours
    tokens,              \* DeafAuthService.tokens : token -> token data
    users,               \* DeafAuthService.users  : username -> user record
    issued,              \* number of tokens secrets.token_urlsafe has produced
    logs,                \* FibonroseService.logs  : sequence of event records
    reputation,          \* FibonroseService.reputation : username -> entry
    deployments,         \* PinkSyncService.deployments : id -> deployment
    tasks,               \* deploy coroutines in flight : id -> local state
    started,             \* number of deploy calls started (uuid4 source)
    budget,              \* service calls the run may still make: <<n>>, or <<>> for any number
    ret                  \* the last call that returned: [op, val]

vars == <<now, token_expiry_hours, tokens, users, issued, logs, reputation,
          deployments, tasks, started, budget, ret>>

authVars == <<tokens, users, issued>>
fibVars == <<logs, reputation>>
pinkVars == <<deployments, tasks, started>>

----------------------------------------------------------------------------
(* Bounds of the model *)

MaxTime == 48
MaxTokens == 2
MaxLogs == 3
MaxDeploys == 2
MaxScore == 1100
MaxCalls == 3
MaxFetches == 1
MaxRequests == 6

\* Usernames the callers use. "system" passes AuthRequest's validator too.
SYSTEM == "system"
UserNames == {"alice", "bob", SYSTEM}

\* Token strings presented to verify_token / revoke_token: every value
\* token_urlsafe can return here, and 0, a string that is never issued.
TokenValues == 0..MaxTokens

\* One service call is made: it is taken from the run's budget, if the run
\* has one.
Unlimited == <<>>
Call == /\ budget # <<0>>
        /\ budget' = IF budget = Unlimited THEN budget ELSE <<budget[1] - 1>>

\* None, and a returned value, as the val of ret.
None == <<>>
Some(v) == <<v>>

----------------------------------------------------------------------------
(* Conversions *)

\* datetime.isoformat(): the stored text of a time.
isoformat(t) == [iso |-> t]

\* datetime.fromisoformat(): the time of a stored text.
fromisoformat(s) == s.iso

\* timedelta(hours=h) added to a time.
plus_hours(t, h) == t + h

----------------------------------------------------------------------------
(* Settings (src/config.py) *)

\* token_expiry_hours: int = 24
DEFAULT_TOKEN_EXPIRY_HOURS == 24

\* Values the environment / .env file can give the setting.
ExpirySettings == {1, 24, 48}

----------------------------------------------------------------------------
(* DeafAuthService *)

\* The literal in authenticate: timedelta(hours=24).
AUTH_EXPIRY_HOURS == 24

\* self.tokens[token] = {...}
token_data(username, t) ==
    [username   |-> username,
     created_at |-> isoformat(t),
     expires_at |-> isoformat(plus_hours(t, AUTH_EXPIRY_HOURS))]

\* functions as dicts
Put(d, k, v) == [x \in DOMAIN d \cup {k} |-> IF x = k THEN v ELSE d[x]]
Del(d, k) == [x \in DOMAIN d \ {k} |-> d[x]]
EmptyDict == [x \in {} |-> 0]

\* authenticate storing a new user record on every login.
store_user_reset(us, username, t) ==
    Put(us, username, [username   |-> username,
                       created_at |-> isoformat(t),
                       last_login |-> isoformat(t)])

\* "Store or update user" that only updates: a username seen for the first
\* time gets no record.
store_user_known_only(us, username, t) ==
    IF username \notin DOMAIN us
    THEN us
    ELSE [us EXCEPT ![username].last_login = isoformat(t)]

\* "Store or update user" in authenticate.
store_user(us, username, t) ==
    IF username \notin DOMAIN us
    THEN Put(us, username, [username   |-> username,
                            created_at |-> isoformat(t),
                            last_login |-> isoformat(t)])
    ELSE [us EXCEPT ![username].last_login = isoformat(t)]

\* authenticate that keeps one session per user: the new token replaces the
\* tokens the user already holds.
Authenticate_single_session(username) ==
    /\ issued < MaxTokens
    /\ LET token == issued + 1
           td == token_data(username, now)
           others == [x \in {y \in DOMAIN tokens : tokens[y].username # username}
                        |-> tokens[x]]
       IN /\ tokens' = Put(others, token, td)
          /\ users' = store_user(users, username, now)
          /\ issued' = token
          /\ ret' = [op |-> "authenticate", val |-> Some([success |-> TRUE, token |-> token,
                                   expires_at |-> td.expires_at])]
    /\ Call
    /\ UNCHANGED <<now, token_expiry_hours, fibVars, pinkVars>>

\* authenticate(username, password): the token is fresh (token_urlsafe(32)
\* draws 256 random bits; a repeated draw is not modelled).
Authenticate(username) ==
    /\ issued < MaxTokens
    /\ LET token == issued + 1
           td == token_data(username, now)
       IN /\ tokens' = Put(tokens, token, td)
          /\ users' = store_user(users, username, now)
          /\ issued' = token
          /\ ret' = [op |-> "authenticate", val |-> Some([success |-> TRUE, token |-> token,
                                   expires_at |-> td.expires_at])]
    /\ Call
    /\ UNCHANGED <<now, token_expiry_hours, fibVars, pinkVars>>

\* is_expired with >= where the code compares with >.
is_expired_ge(td, t) == t >= fromisoformat(td.expires_at)

\* The expiry test of verify_token.
is_expired(td, t) == t > fromisoformat(td.expires_at)

\* What verify_token returns for a stored, unexpired token.
user_info(token, td, us) ==
    IF td.username \notin DOMAIN us
    THEN None
    ELSE Some([username   |-> td.username,
               token      |-> token,
               created_at |-> us[td.username].created_at,
               last_login |-> us[td.username].last_login])

\* verify_token without the del of the expired token.
verify_tokens_keep(tk, token, t) == tk

\* The token store after verify_token(token).
verify_tokens(tk, token, t) ==
    IF token \in DOMAIN tk /\ is_expired(tk[token], t) THEN Del(tk, token) ELSE tk

\* The value of verify_token(token).
verify_result(tk, us, token, t) ==
    IF token \notin DOMAIN tk THEN None
    ELSE IF is_expired(tk[token], t) THEN None
    ELSE user_info(token, tk[token], us)

VerifyToken(token) ==
    /\ tokens' = verify_tokens(tokens, token, now)
    /\ ret' = [op |-> "verify_token", val |-> verify_result(tokens, users, token, now)]
    /\ Call
    /\ UNCHANGED <<now, token_expiry_hours, users, issued, fibVars, pinkVars>>

\* revoke_token deleting every token of the token's user.
revoke_tokens_of_user(tk, token) ==
    IF token \in DOMAIN tk
    THEN [x \in {y \in DOMAIN tk : tk[y].username # tk[token].username} |-> tk[x]]
    ELSE tk

\* The token store after revoke_token(token).
revoke_tokens(tk, token) == IF token \in DOMAIN tk THEN Del(tk, token) ELSE tk

\* The value of revoke_token(token).
revoke_result(tk, token) == token \in DOMAIN tk

RevokeToken(token) ==
    /\ tokens' = revoke_tokens(tokens, token)
    /\ ret' = [op |-> "revoke_token", val |-> Some(revoke_result(tokens, token))]
    /\ Call
    /\ UNCHANGED <<now, token_expiry_hours, users, issued, fibVars, pinkVars>>

\* get_user(username)
GetUser(username) ==
    /\ ret' = [op |-> "get_user", val |-> IF username \in DOMAIN users
                       THEN Some(users[username]) ELSE None]
    /\ Call
    /\ UNCHANGED <<now, token_expiry_hours, authVars, fibVars, pinkVars>>

----------------------------------------------------------------------------
(* FibonroseService *)

\* REPUTATION_IMPACTS
ImpactActions ==
    {"auth_success", "code_generation_started", "code_generation_completed",
     "deployment_started", "deployment_completed", "api_entries_fetched",
     "auth_error", "code_generation_error", "deployment_error"}

\* The impact table with a completed deployment worth 150.
REPUTATION_IMPACTS_large(action) ==
    CASE action = "auth_success" -> 5
      [] action = "code_generation_started" -> 10
      [] action = "code_generation_completed" -> 20
      [] action = "deployment_started" -> 15
      [] action = "deployment_completed" -> 150
      [] action = "api_entries_fetched" -> 1
      [] action = "auth_error" -> -5
      [] action = "code_generation_error" -> -10
      [] action = "deployment_error" -> -25

REPUTATION_IMPACTS(action) ==
    CASE action = "auth_success" -> 5
      [] action = "code_generation_started" -> 10
      [] action = "code_generation_completed" -> 20
      [] action = "deployment_started" -> 15
      [] action = "deployment_completed" -> 50
      [] action = "api_entries_fetched" -> 1
      [] action = "auth_error" -> -5
      [] action = "code_generation_error" -> -10
      [] action = "deployment_error" -> -25

\* self.REPUTATION_IMPACTS.get(action, 0)
impact_of(action) ==
    IF action \in ImpactActions THEN REPUTATION_IMPACTS(action) ELSE 0

\* _calculate_level with <= where the code compares with <.
_calculate_level_le(score) ==
    IF score <= 50 THEN "Novice"
    ELSE IF score <= 150 THEN "Apprentice"
    ELSE IF score <= 300 THEN "Adept"
    ELSE IF score <= 500 THEN "Expert"
    ELSE IF score <= 1000 THEN "Master"
    ELSE "Grandmaster"

\* _calculate_level(score)
_calculate_level(score) ==
    IF score < 50 THEN "Novice"
    ELSE IF score < 150 THEN "Apprentice"
    ELSE IF score < 300 THEN "Adept"
    ELSE IF score < 500 THEN "Expert"
    ELSE IF score < 1000 THEN "Master"
    ELSE "Grandmaster"

\* The ledger is a dict; its entries are kept in insertion order, as the
\* dict keeps them.
rep_names(rep) == {rep[i].username : i \in DOMAIN rep}
rep_index(rep, username) == CHOOSE i \in DOMAIN rep : rep[i].username = username
rep_get(rep, username) == rep[rep_index(rep, username)]

\* The entry _update_reputation creates for a username not in the ledger.
new_entry(username, t) ==
    [username      |-> username,
     score         |-> 0,
     level         |-> "Novice",
     total_actions |-> 0,
     last_activity |-> isoformat(t),
     history       |-> <<>>]

\* bump_entry with the score overwritten (=) where the code accumulates (+=).
bump_entry_overwrite(e, impact, action, t) ==
    [username      |-> e.username,
     score         |-> impact,
     level         |-> _calculate_level(impact),
     total_actions |-> e.total_actions + 1,
     last_activity |-> isoformat(t),
     history       |-> Append(e.history,
                              [action    |-> action,
                               impact    |-> impact,
                               timestamp |-> isoformat(t)])]

\* bump_entry with the level computed before the score is updated.
bump_entry_stale_level(e, impact, action, t) ==
    [username      |-> e.username,
     score         |-> e.score + impact,
     level         |-> _calculate_level(e.score),
     total_actions |-> e.total_actions + 1,
     last_activity |-> isoformat(t),
     history       |-> Append(e.history,
                              [action    |-> action,
                               impact    |-> impact,
                               timestamp |-> isoformat(t)])]

\* The mutation _update_reputation applies to the entry.
bump_entry(e, impact, action, t) ==
    LET score == e.score + impact
    IN [username      |-> e.username,
        score         |-> score,
        level         |-> _calculate_level(score),
        total_actions |-> e.total_actions + 1,
        last_activity |-> isoformat(t),
        history       |-> Append(e.history,
                                 [action    |-> action,
                                  impact    |-> impact,
                                  timestamp |-> isoformat(t)])]

\* _update_reputation writing back an entry built from the zeroed defaults,
\* so that what earlier events added is lost.
_update_reputation_fresh(rep, username, impact, action, t) ==
    LET rep1 == IF username \in rep_names(rep)
                THEN rep
                ELSE Append(rep, new_entry(username, t))
        i == rep_index(rep1, username)
    IN [rep1 EXCEPT ![i] = bump_entry(new_entry(username, t), impact, action, t)]

\* _update_reputation(username, impact, action): the ledger afterwards.
_update_reputation(rep, username, impact, action, t) ==
    LET rep1 == IF username \in rep_names(rep)
                THEN rep
                ELSE Append(rep, new_entry(username, t))
        i == rep_index(rep1, username)
    IN [rep1 EXCEPT ![i] = bump_entry(rep1[i], impact, action, t)]

\* The record log_event builds. uuid4 ids are distinct; the id is the
\* record's sequence number.
log_entry(lg, action, metadata, user, t) ==
    [id                |-> Len(lg) + 1,
     action            |-> action,
     metadata          |-> metadata,
     user              |-> user,
     timestamp         |-> isoformat(t),
     reputation_impact |-> impact_of(action)]

\* log_event(action, metadata, user): the log afterwards.
log_event_logs(lg, action, metadata, user, t) ==
    Append(lg, log_entry(lg, action, metadata, user, t))

\* log_event without the test for the "system" user.
log_event_reputation_all(rep, action, user, t) ==
    _update_reputation(rep, user, impact_of(action), action, t)

\* log_event(action, metadata, user): the ledger afterwards.
log_event_reputation(rep, action, user, t) ==
    IF user # SYSTEM
    THEN _update_reputation(rep, user, impact_of(action), action, t)
    ELSE rep

LogEvent(action, metadata, user) ==
    /\ Len(logs) < MaxLogs
    /\ logs' = log_event_logs(logs, action, metadata, user, now)
    /\ reputation' = log_event_reputation(reputation, action, user, now)
    /\ ret' = [op |-> "log_event", val |-> Some(log_entry(logs, action, metadata, user, now))]
    /\ Call
    /\ UNCHANGED <<now, token_expiry_hours, authVars, pinkVars>>

\* s[:n] of Python, for any integer n.
py_prefix(s, n) ==
    LET k == IF n >= 0 THEN n ELSE Len(s) + n
        m == IF k < 0 THEN 0 ELSE IF k > Len(s) THEN Len(s) ELSE k
    IN SubSeq(s, 1, m)

\* s[-n:] of Python, for n > 0.
py_suffix(s, n) == SubSeq(s, IF Len(s) > n THEN Len(s) - n + 1 ELSE 1, Len(s))

MaxOf(S) == CHOOSE x \in S : \A y \in S : y <= x

\* list.sort(key=..., reverse=True) / sorted(..., reverse=True) on a
\* sequence of [k |-> key, e |-> element]: a stable sort, so elements with
\* equal keys keep their order.
RECURSIVE sort_desc(_)
sort_desc(ps) ==
    IF ps = <<>> THEN <<>>
    ELSE LET m == MaxOf({ps[i].k : i \in DOMAIN ps})
             IsMax(p) == p.k = m
             NotMax(p) == p.k # m
         IN SelectSeq(ps, IsMax) \o sort_desc(SelectSeq(ps, NotMax))

elems(ps) == [i \in DOMAIN ps |-> ps[i].e]

\* sort(key=lambda x: x["timestamp"], reverse=True): ISO texts of one format
\* order as their times do.
sort_by_timestamp_desc(s) ==
    elems(sort_desc([i \in DOMAIN s |->
                        [k |-> fromisoformat(s[i].timestamp), e |-> s[i]]]))

\* sorted(..., key=lambda x: x["score"], reverse=True)
sort_by_score_desc(s) ==
    elems(sort_desc([i \in DOMAIN s |-> [k |-> s[i].score, e |-> s[i]]]))

\* get_user_logs(username, limit)
get_user_logs(lg, username, limit) ==
    LET OfUser(e) == e.user = username
    IN py_prefix(sort_by_timestamp_desc(SelectSeq(lg, OfUser)), limit)

\* get_all_logs(limit)
get_all_logs(lg, limit) == py_prefix(sort_by_timestamp_desc(lg), limit)

\* get_reputation(username)
get_reputation(rep, username) ==
    IF username \notin rep_names(rep)
    THEN [username      |-> username,
          score         |-> 0,
          level         |-> "Novice",
          total_actions |-> 0,
          last_activity |-> None]
    ELSE LET e == rep_get(rep, username)
         IN [username       |-> e.username,
             score          |-> e.score,
             level          |-> e.level,
             total_actions  |-> e.total_actions,
             last_activity  |-> e.last_activity,
             recent_history |-> py_suffix(e.history, 10)]

leaderboard_row(e) ==
    [username      |-> e.username,
     score         |-> e.score,
     level         |-> e.level,
     total_actions |-> e.total_actions]

\* get_leaderboard cutting the ledger to limit entries before sorting where
\* the code sorts first.
get_leaderboard_cut_first(rep, limit) ==
    LET top == sort_by_score_desc(py_prefix(rep, limit))
    IN [i \in DOMAIN top |-> leaderboard_row(top[i])]

\* get_leaderboard(limit)
get_leaderboard(rep, limit) ==
    LET top == py_prefix(sort_by_score_desc(rep), limit)
    IN [i \in DOMAIN top |-> leaderboard_row(top[i])]

GetUserLogs(username, limit) ==
    /\ ret' = [op |-> "get_user_logs", val |-> get_user_logs(logs, username, limit)]
    /\ Call
    /\ UNCHANGED <<now, token_expiry_hours, authVars, fibVars, pinkVars>>

\* get_all_logs sorting self.logs in place where the code sorts a copy.
GetAllLogs_in_place(limit) ==
    /\ logs' = sort_by_timestamp_desc(logs)
    /\ ret' = [op |-> "get_all_logs",
               val |-> get_all_logs(logs, limit)]
    /\ Call
    /\ UNCHANGED <<now, token_expiry_hours, authVars, reputation, pinkVars>>

GetAllLogs(limit) ==
    /\ ret' = [op |-> "get_all_logs", val |-> get_all_logs(logs, limit)]
    /\ Call
    /\ UNCHANGED <<now, token_expiry_hours, authVars, fibVars, pinkVars>>

\* get_reputation creating the missing entry (a setdefault) where the code
\* answers from defaults.
GetReputation_creates(username) ==
    /\ ret' = [op |-> "get_reputation", val |-> Some(get_reputation(reputation, username))]
    /\ reputation' = IF username \in rep_names(reputation) THEN reputation
                     ELSE Append(reputation, [username |-> username, score |-> 0,
                                              level |-> "Novice", total_actions |-> 0,
                                              history |-> <<>>])
    /\ Call
    /\ UNCHANGED <<now, token_expiry_hours, authVars, logs, pinkVars>>

GetReputation(username) ==
    /\ ret' = [op |-> "get_reputation", val |-> Some(get_reputation(reputation, username))]
    /\ Call
    /\ UNCHANGED <<now, token_expiry_hours, authVars, fibVars, pinkVars>>

GetLeaderboard(limit) ==
    /\ ret' = [op |-> "get_leaderboard", val |-> get_leaderboard(reputation, limit)]
    /\ Call
    /\ UNCHANGED <<now, token_expiry_hours, authVars, fibVars, pinkVars>>

----------------------------------------------------------------------------
(* PinkSyncService *)

\* Texts are sequences of characters; a literal piece of a format string is
\* kept as one element.

\* str.lower() on the letters used.
lower_char(c) ==
    CASE c = "A" -> "a" [] c = "B" -> "b" [] c = "C" -> "c" [] c = "D" -> "d"
      [] c = "E" -> "e" [] c = "F" -> "f" [] c = "G" -> "g" [] c = "H" -> "h"
      [] c = "I" -> "i" [] c = "J" -> "j" [] c = "K" -> "k" [] c = "L" -> "l"
      [] c = "M" -> "m" [] c = "N" -> "n" [] c = "O" -> "o" [] c = "P" -> "p"
      [] c = "Q" -> "q" [] c = "R" -> "r" [] c = "S" -> "s" [] c = "T" -> "t"
      [] c = "U" -> "u" [] c = "V" -> "v" [] c = "W" -> "w" [] c = "X" -> "x"
      [] c = "Y" -> "y" [] c = "Z" -> "z" [] OTHER -> c

lower(s) == [i \in DOMAIN s |-> lower_char(s[i])]

\* str.replace(old, new) for a one-character old and new.
replace_char(s, old, new) == [i \in DOMAIN s |-> IF s[i] = old THEN new ELSE s[i]]

\* str.replace(old, '') for a one-character old.
remove_char(s, old) == LET Keep(c) == c # old IN SelectSeq(s, Keep)

\* api_slug without the second replace: underscores are kept.
api_slug_spaces_only(api_name) == replace_char(lower(api_name), " ", "-")

\* api_name.lower().replace(' ', '-').replace('_', '-')
api_slug(api_name) == replace_char(replace_char(lower(api_name), " ", "-"), "_", "-")

\* f"https://mbtq.dev/api/{api_slug}"
deployment_url(slug) == <<"https://mbtq.dev/api/">> \o slug

\* datetime.utcnow().strftime("%H:%M:%S"): the time of day.
hms(t) == t % 24

\* _create_log(message, log_type)
_create_log(message, log_type, t) ==
    [timestamp |-> hms(t), message |-> message, type |-> log_type]

\* The log lines deploy appends after its k-th sleep and before the next
\* (k = 0: before the first sleep). The pictographs that open the messages
\* are left out.
deploy_lines(k, api_name, t) ==
    LET slug == api_slug(api_name)
    IN CASE k = 0 -> << _create_log(<<"PinkSync: Initiating deployment...">>, "info", t) >>
         [] k = 1 -> << _create_log(<<"Creating API endpoint files...">>, "info", t) >>
         [] k = 2 -> << _create_log(<<"Created: api/">> \o slug \o <<".js">>, "success", t),
                        _create_log(<<"Generating React component...">>, "info", t) >>
         [] k = 3 -> << _create_log(<<"Created: components/">> \o remove_char(api_name, " ")
                                        \o <<".jsx">>, "success", t),
                        _create_log(<<"Writing configuration files...">>, "info", t) >>
         [] k = 4 -> << _create_log(<<"Configuration files ready">>, "success", t),
                        _create_log(<<"Pushing to GitHub...">>, "info", t) >>
         [] k = 5 -> << _create_log(<<"Code committed to repository">>, "success", t),
                        _create_log(<<"Triggering deployment...">>, "info", t) >>
         [] k = 6 -> << _create_log(<<"Build started">>, "success", t),
                        _create_log(<<"Building production bundle...">>, "info", t) >>
         [] k = 7 -> << _create_log(<<"Build completed successfully">>, "success", t),
                        _create_log(<<"Deploying to mbtq.dev...">>, "info", t) >>
         [] k = 8 -> << _create_log(<<"Live at: ">> \o deployment_url(slug), "success", t),
                        _create_log(<<"Deployment complete!">>, "success", t) >>

\* The number of asyncio.sleep calls in deploy.
DEPLOY_SLEEPS == 8

\* deployment_info
deployment_info(task, lines, t) ==
    [deployment_id |-> task.deployment_id,
     api_name      |-> task.api_name,
     api_slug      |-> api_slug(task.api_name),
     url           |-> deployment_url(api_slug(task.api_name)),
     status        |-> "deployed",
     logs          |-> lines,
     user          |-> task.user,
     code          |-> task.code,
     config        |-> IF task.config = None THEN EmptyDict ELSE task.config,
     created_at    |-> isoformat(t),
     updated_at    |-> isoformat(t)]

\* What deploy returns.
deploy_result(info) ==
    [deployment_id |-> info.deployment_id,
     url           |-> info.url,
     status        |-> info.status,
     logs          |-> info.logs]

\* The deployments are a dict; its values are kept in insertion order.
dep_ids(deps) == {deps[i].deployment_id : i \in DOMAIN deps}
dep_get(deps, id) == deps[CHOOSE i \in DOMAIN deps : deps[i].deployment_id = id]

\* deploy(api_name, code, config, user) up to its first sleep. uuid4 ids are
\* distinct; the id is the call's sequence number.
DeployStart(api_name, code, config, user) ==
    /\ started < MaxDeploys
    /\ LET id == started + 1
       IN /\ started' = id
          /\ tasks' = Put(tasks, id,
                          [deployment_id |-> id,
                           api_name      |-> api_name,
                           code          |-> code,
                           config        |-> config,
                           user          |-> user,
                           logs          |-> deploy_lines(0, api_name, now),
                           sleeps        |-> 1])
    /\ Call
    /\ UNCHANGED <<now, token_expiry_hours, authVars, fibVars, deployments, ret>>

\* deploy that never wakes from its last sleep.
DeployStep_stalls(id) ==
    /\ id \in DOMAIN tasks
    /\ LET task == tasks[id]
           k == task.sleeps
           lines == task.logs \o deploy_lines(k, task.api_name, now)
       IN /\ k < DEPLOY_SLEEPS
          /\ tasks' = [tasks EXCEPT ![id].logs = lines, ![id].sleeps = k + 1]
          /\ UNCHANGED <<deployments, ret>>
    /\ UNCHANGED <<now, token_expiry_hours, authVars, fibVars, started, budget>>

\* deploy wakes from its k-th sleep and runs to the next one, or to its end.
DeployStep(id) ==
    /\ id \in DOMAIN tasks
    /\ LET task == tasks[id]
           k == task.sleeps
           lines == task.logs \o deploy_lines(k, task.api_name, now)
       IN IF k < DEPLOY_SLEEPS
          THEN /\ tasks' = [tasks EXCEPT ![id].logs = lines, ![id].sleeps = k + 1]
               /\ UNCHANGED <<deployments, ret>>
          ELSE LET info == deployment_info(task, lines, now)
               IN /\ deployments' = Append(deployments, info)
                  /\ tasks' = Del(tasks, id)
                  /\ ret' = [op |-> "deploy", val |-> Some(deploy_result(info))]
    /\ UNCHANGED <<now, token_expiry_hours, authVars, fibVars, started, budget>>

\* An exception raised to the caller, as the val of ret.
Raised(e) == <<"raise", e>>

\* get_deployment_status(deployment_id)
get_deployment_status(deps, id) ==
    IF id \notin dep_ids(deps)
    THEN Raised("ValueError")
    ELSE LET d == dep_get(deps, id)
         IN Some([deployment_id |-> id,
                  api_name      |-> d.api_name,
                  url           |-> d.url,
                  status        |-> d.status,
                  created_at    |-> d.created_at,
                  updated_at    |-> d.updated_at])

GetDeploymentStatus(id) ==
    /\ ret' = [op |-> "get_deployment_status",
               val |-> get_deployment_status(deployments, id)]
    /\ Call
    /\ UNCHANGED <<now, token_expiry_hours, authVars, fibVars, pinkVars>>

deployment_row(d) ==
    [deployment_id |-> d.deployment_id,
     api_name      |-> d.api_name,
     url           |-> d.url,
     status        |-> d.status,
     created_at    |-> d.created_at]

\* sort(key=lambda x: x["created_at"], reverse=True)
sort_by_created_at_desc(s) ==
    elems(sort_desc([i \in DOMAIN s |->
                        [k |-> fromisoformat(s[i].created_at), e |-> s[i]]]))

\* get_user_deployments without the test of the owner.
get_user_deployments_of_all(deps, username, limit) ==
    LET rows == [i \in DOMAIN deps |-> deployment_row(deps[i])]
    IN py_prefix(sort_by_created_at_desc(rows), limit)

\* get_user_deployments(username, limit)
get_user_deployments(deps, username, limit) ==
    LET OfUser(d) == d.user = username
        mine == SelectSeq(deps, OfUser)
        rows == [i \in DOMAIN mine |-> deployment_row(mine[i])]
    IN py_prefix(sort_by_created_at_desc(rows), limit)

GetUserDeployments(username, limit) ==
    /\ ret' = [op |-> "get_user_deployments",
               val |-> get_user_deployments(deployments, username, limit)]
    /\ Call
    /\ UNCHANGED <<now, token_expiry_hours, authVars, fibVars, pinkVars>>

\* delete_deployment removing every deployment of the record's owner.
delete_deployments_of_owner(deps, id) ==
    IF id \notin dep_ids(deps) THEN deps
    ELSE LET Other(d) == d.user # dep_get(deps, id).user IN SelectSeq(deps, Other)

\* The deployments after delete_deployment(deployment_id).
delete_deployments(deps, id) ==
    LET Other(d) == d.deployment_id # id IN SelectSeq(deps, Other)

\* The value of delete_deployment(deployment_id).
delete_result(deps, id) == id \in dep_ids(deps)

DeleteDeployment(id) ==
    /\ deployments' = delete_deployments(deployments, id)
    /\ ret' = [op |-> "delete_deployment",
               val |-> Some(delete_result(deployments, id))]
    /\ Call
    /\ UNCHANGED <<now, token_expiry_hours, authVars, fibVars, tasks, started>>

----------------------------------------------------------------------------
(* _calculate_level called on its own *)

ScoreRange == (0 - MaxScore)..MaxScore

CalculateLevel(score) ==
    /\ ret' = [op |-> "_calculate_level",
               val |-> Some([score |-> score, level |-> _calculate_level(score)])]
    /\ UNCHANGED <<now, token_expiry_hours, authVars, fibVars, pinkVars, budget>>

\* _update_reputation(username, impact, action) on the entry of a user whose
\* score is `score`: the entry before and after.
UpdateReputationAt(score, action) ==
    /\ score + impact_of(action) \in ScoreRange
    /\ LET e == [new_entry("alice", now) EXCEPT !.score = score,
                                               !.level = _calculate_level(score)]
           rep == _update_reputation(<<e>>, "alice", impact_of(action), action, now)
       IN ret' = [op |-> "_update_reputation",
                  val |-> Some([action |-> action, before |-> e, after |-> rep[1]])]
    /\ UNCHANGED <<now, token_expiry_hours, authVars, fibVars, pinkVars, budget>>

----------------------------------------------------------------------------
(* The clock *)

\* Time passes between two steps: a day.
TickHours == AUTH_EXPIRY_HOURS

Tick ==
    /\ now + TickHours <= MaxTime
    /\ now' = now + TickHours
    /\ UNCHANGED <<token_expiry_hours, authVars, fibVars, pinkVars, budget, ret>>

----------------------------------------------------------------------------

(* The HTTP endpoints (src/main.py) *)

\* raise HTTPException(status_code=..., detail=...): the response it becomes.
HTTPException(status_code, detail) == [status_code |-> status_code, detail |-> detail]

\* A returned body: a 200 response.
Ok(body) == [status_code |-> 200, body |-> body]

\* A val that is a raised exception rather than a returned value.
IsRaised(v) == Len(v) = 2

\* The X-MBTQ-Token header of a request: absent (None, as is the empty
\* string to `not x_mbtq_token`) or a token string.
Headers == {None} \cup {Some(t) : t \in TokenValues}

\* verify_auth(x_mbtq_token): the token store afterwards.
verify_auth_tokens(tk, h, t) ==
    IF h = None THEN tk ELSE verify_tokens(tk, h[1], t)

\* verify_auth accepting every stored token, expired or not.
verify_auth_any_stored(tk, us, h, t) ==
    IF h = None
    THEN Raised(HTTPException(401, "DeafAUTH token required"))
    ELSE IF h[1] \notin DOMAIN tk
         THEN Raised(HTTPException(401, "Invalid DeafAUTH token"))
         ELSE user_info(h[1], tk[h[1]], us)

\* verify_auth(x_mbtq_token): the user info it returns, or the 401 it raises.
verify_auth(tk, us, h, t) ==
    IF h = None
    THEN Raised(HTTPException(401, "DeafAUTH token required"))
    ELSE LET user == verify_result(tk, us, h[1], t)
         IN IF user = None
            THEN Raised(HTTPException(401, "Invalid DeafAUTH token"))
            ELSE user

\* A handler that never runs: its Depends(verify_auth) raised.
Rejected(op, h) ==
    /\ IsRaised(verify_auth(tokens, users, h, now))
    /\ tokens' = verify_auth_tokens(tokens, h, now)
    /\ ret' = [op |-> op, val |-> Some(verify_auth(tokens, users, h, now)[2])]
    /\ UNCHANGED <<now, token_expiry_hours, users, issued, fibVars, pinkVars>>

\* The user a request with header h is authenticated as.
auth_user(h) == verify_auth(tokens, users, h, now)[1].username

Authenticated(h) == ~IsRaised(verify_auth(tokens, users, h, now))

\* POST /api/auth/login. authenticate accepts every username.
login(username) ==
    /\ issued < MaxTokens
    /\ LET token == issued + 1
           td == token_data(username, now)
           m == [username |-> username]
           lg1 == log_event_logs(logs, "auth_attempt", m, SYSTEM, now)
           rep1 == log_event_reputation(reputation, "auth_attempt", SYSTEM, now)
       IN /\ tokens' = Put(tokens, token, td)
          /\ users' = store_user(users, username, now)
          /\ issued' = token
          /\ logs' = log_event_logs(lg1, "auth_success", m, username, now)
          /\ reputation' = log_event_reputation(rep1, "auth_success", username, now)
          /\ ret' = [op |-> "POST /api/auth/login",
                     val |-> Some(Ok([success  |-> TRUE,
                                      token    |-> token,
                                      username |-> username,
                                      message  |-> "DeafAUTH authentication successful"]))]
    /\ Call
    /\ UNCHANGED <<now, token_expiry_hours, pinkVars>>

\* str(e) of the HTTPException the login handler raises and catches itself:
\* "401: Authentication failed" where the exception class defines __str__,
\* the empty text where it does not.
Str401 == {"401: Authentication failed", ""}

\* POST /api/auth/login when authenticate reports failure: token generation
\* raised inside authenticate, which stores nothing and returns success
\* False; the handler's own 401 is raised inside its try block, so its
\* except clause logs auth_error and answers 500 with the text s of the 401.
login_failed(username, s) ==
    /\ LET m1 == [username |-> username]
           lg1 == log_event_logs(logs, "auth_attempt", m1, SYSTEM, now)
           rep1 == log_event_reputation(reputation, "auth_attempt", SYSTEM, now)
           m2 == [username |-> username, error |-> s]
       IN /\ logs' = log_event_logs(lg1, "auth_error", m2, SYSTEM, now)
          /\ reputation' = log_event_reputation(rep1, "auth_error", SYSTEM, now)
          /\ ret' = [op |-> "POST /api/auth/login", val |-> Some(HTTPException(500, s))]
    /\ Call
    /\ UNCHANGED <<now, token_expiry_hours, authVars, pinkVars>>

\* code_generator_service.generate_fullstack_code(...): source text rendered
\* from the API metadata by string formatting.
generate_fullstack_code(request, username) ==
    <<"// ">> \o request.api_name \o <<" for ", username>>

\* POST /api/generate
generate_code(h, request) ==
    /\ Call
    /\ IF ~Authenticated(h) THEN Rejected("POST /api/generate", h)
       ELSE LET user == auth_user(h)
                m1 == [api_name |-> request.api_name, category |-> request.category]
                lg1 == log_event_logs(logs, "code_generation_started", m1, user, now)
                rep1 == log_event_reputation(reputation, "code_generation_started", user, now)
                code == generate_fullstack_code(request, user)
                m2 == [api_name |-> request.api_name, code_length |-> Len(code)]
            IN /\ logs' = log_event_logs(lg1, "code_generation_completed", m2, user, now)
               /\ reputation' = log_event_reputation(rep1, "code_generation_completed", user, now)
               /\ ret' = [op |-> "POST /api/generate",
                          val |-> Some(Ok([success      |-> TRUE,
                                           code         |-> code,
                                           api_name     |-> request.api_name,
                                           generated_at |-> isoformat(now)]))]
               /\ tokens' = verify_auth_tokens(tokens, h, now)
               /\ UNCHANGED <<now, token_expiry_hours, users, issued, pinkVars>>

\* POST /api/deploy, up to the first sleep of pinksync_service.deploy.
deploy_api(h, request) ==
    /\ Call
    /\ IF ~Authenticated(h) THEN Rejected("POST /api/deploy", h)
       ELSE /\ started < MaxDeploys
            /\ LET user == auth_user(h)
                   id == started + 1
                   m == [api_name |-> request.api_name, target |-> "mbtq.dev"]
               IN /\ logs' = log_event_logs(logs, "deployment_started", m, user, now)
                  /\ reputation' = log_event_reputation(reputation, "deployment_started", user, now)
                  /\ started' = id
                  /\ tasks' = Put(tasks, id,
                                  [deployment_id |-> id,
                                   api_name      |-> request.api_name,
                                   code          |-> request.code,
                                   config        |-> request.config,
                                   user          |-> user,
                                   logs          |-> deploy_lines(0, request.api_name, now),
                                   sleeps        |-> 1])
            /\ tokens' = verify_auth_tokens(tokens, h, now)
            /\ UNCHANGED <<now, token_expiry_hours, users, issued, deployments, ret>>

\* POST /api/deploy: deploy wakes from its k-th sleep and runs to the next
\* one; after the last it stores the deployment, and the handler logs the
\* completion and returns.
deploy_api_step(id) ==
    /\ id \in DOMAIN tasks
    /\ LET task == tasks[id]
           k == task.sleeps
           lines == task.logs \o deploy_lines(k, task.api_name, now)
       IN IF k < DEPLOY_SLEEPS
          THEN /\ tasks' = [tasks EXCEPT ![id].logs = lines, ![id].sleeps = k + 1]
               /\ UNCHANGED <<deployments, fibVars, ret>>
          ELSE LET info == deployment_info(task, lines, now)
                   result == deploy_result(info)
                   m == [api_name       |-> task.api_name,
                         deployment_url |-> result.url,
                         status         |-> result.status]
               IN /\ deployments' = Append(deployments, info)
                  /\ tasks' = Del(tasks, id)
                  /\ logs' = log_event_logs(logs, "deployment_completed", m, task.user, now)
                  /\ reputation' = log_event_reputation(reputation, "deployment_completed",
                                                        task.user, now)
                  /\ ret' = [op |-> "POST /api/deploy",
                             val |-> Some(Ok([success       |-> TRUE,
                                              deployment_id |-> result.deployment_id,
                                              url           |-> result.url,
                                              status        |-> result.status,
                                              logs          |-> result.logs,
                                              deployed_at   |-> isoformat(now)]))]
    /\ UNCHANGED <<now, token_expiry_hours, authVars, started, budget>>

\* The text str(e) of an exception raised inside pinksync_service.deploy
\* while it runs.
DeployFaults == {"out of memory"}

\* deploy_api_raise that leaves the deployment running after the error
\* was logged and answered.
deploy_api_raise_keeps(id, e) ==
    /\ id \in DOMAIN tasks
    /\ LET task == tasks[id]
           m == [api_name |-> task.api_name, error |-> e]
       IN /\ logs' = log_event_logs(logs, "deployment_error", m, task.user, now)
          /\ reputation' = log_event_reputation(reputation, "deployment_error",
                                                task.user, now)
          /\ ret' = [op |-> "POST /api/deploy", val |-> Some(HTTPException(500, e))]
    /\ UNCHANGED <<now, token_expiry_hours, authVars, pinkVars, budget>>

\* POST /api/deploy when pinksync_service.deploy raises e: deploy re-raises
\* it without storing a record, and the handler logs the error and answers
\* 500.
deploy_api_raise(id, e) ==
    /\ id \in DOMAIN tasks
    /\ LET task == tasks[id]
           m == [api_name |-> task.api_name, error |-> e]
       IN /\ tasks' = Del(tasks, id)
          /\ logs' = log_event_logs(logs, "deployment_error", m, task.user, now)
          /\ reputation' = log_event_reputation(reputation, "deployment_error",
                                                task.user, now)
          /\ ret' = [op |-> "POST /api/deploy", val |-> Some(HTTPException(500, e))]
    /\ UNCHANGED <<now, token_expiry_hours, authVars, deployments, started, budget>>

\* GET /api/deployments/{deployment_id}
get_deployment_status_endpoint(h, id) ==
    /\ Call
    /\ IF ~Authenticated(h) THEN Rejected("GET /api/deployments/{deployment_id}", h)
       ELSE LET status == get_deployment_status(deployments, id)
            IN /\ ret' = [op |-> "GET /api/deployments/{deployment_id}",
                          val |-> IF IsRaised(status)
                                  THEN Some(HTTPException(404, "Deployment not found"))
                                  ELSE Some(Ok(status[1]))]
               /\ tokens' = verify_auth_tokens(tokens, h, now)
               /\ UNCHANGED <<now, token_expiry_hours, users, issued, fibVars, pinkVars>>

\* GET /api/fibonrose/logs
get_fibonrose_logs(h, limit) ==
    /\ Call
    /\ IF ~Authenticated(h) THEN Rejected("GET /api/fibonrose/logs", h)
       ELSE LET user == auth_user(h)
                lg == get_user_logs(logs, user, limit)
            IN /\ ret' = [op |-> "GET /api/fibonrose/logs",
                          val |-> Some(Ok([logs |-> lg, count |-> Len(lg), user |-> user]))]
               /\ tokens' = verify_auth_tokens(tokens, h, now)
               /\ UNCHANGED <<now, token_expiry_hours, users, issued, fibVars, pinkVars>>

\* GET /api/fibonrose/reputation
get_reputation_endpoint(h) ==
    /\ Call
    /\ IF ~Authenticated(h) THEN Rejected("GET /api/fibonrose/reputation", h)
       ELSE /\ ret' = [op |-> "GET /api/fibonrose/reputation",
                       val |-> Some(Ok(get_reputation(reputation, auth_user(h))))]
            /\ tokens' = verify_auth_tokens(tokens, h, now)
            /\ UNCHANGED <<now, token_expiry_hours, users, issued, fibVars, pinkVars>>

----------------------------------------------------------------------------

(* GET /api/entries (src/main.py) *)

\* `sub in s` for two texts.
contains(s, sub) ==
    \E i \in 0..(Len(s) - Len(sub)) : SubSeq(s, i + 1, i + Len(sub)) = sub

\* `if x:` for an optional text: given and not empty.
truthy(x) == x # None /\ x[1] # <<>>

\* The filter on https applied whenever https is true, where the code
\* applies it whenever https is given.
filter_https_if_true(entries, https) ==
    LET Same(e) == e.HTTPS = https[1]
    IN IF https # None /\ https[1] THEN SelectSeq(entries, Same) ELSE entries

\* if https is not None: entries = [e for e in entries if e.get("HTTPS") == https]
filter_https(entries, https) ==
    LET Same(e) == e.HTTPS = https[1]
    IN IF https # None THEN SelectSeq(entries, Same) ELSE entries

\* if category and category.lower() != "all": ... e.get("Category") == category
filter_category(entries, category) ==
    LET Same(e) == e.Category = category[1]
    IN IF truthy(category) /\ lower(category[1]) # <<"a", "l", "l">>
       THEN SelectSeq(entries, Same) ELSE entries

\* if search: ... search_lower in API.lower() or search_lower in Description.lower()
filter_search(entries, search) ==
    LET Found(e) == \/ contains(lower(e.API), lower(search[1]))
                    \/ contains(lower(e.Description), lower(search[1]))
    IN IF truthy(search) THEN SelectSeq(entries, Found) ELSE entries

\* if auth: entries = [e for e in entries if e.get("Auth") == auth]
filter_auth(entries, auth) ==
    LET Same(e) == e.Auth = auth[1]
    IN IF truthy(auth) THEN SelectSeq(entries, Same) ELSE entries

\* The filters and the cut of get_api_entries, in the order of the code.
filter_entries(entries, q) ==
    py_prefix(filter_https(filter_auth(filter_search(filter_category(entries, q.category),
                                                     q.search),
                                       q.auth),
                           q.https),
              q.limit)

\* What client.get, raise_for_status and response.json() come to: the
\* request fails (httpx.RequestError), the status is not a success
\* (httpx.HTTPStatusError), the body is not JSON (json.JSONDecodeError), or
\* the body is a JSON object.
FetchFailures == {"RequestError", "HTTPStatusError", "JSONDecodeError"}
HTTPErrors == {"RequestError", "HTTPStatusError"}

\* GET /api/entries with the query q, the remote catalog answering r.
get_api_entries(q, r) ==
    /\ Call
    /\ IF r.raises \in HTTPErrors
       THEN /\ ret' = [op |-> "GET /api/entries",
                       val |-> Some(HTTPException(502, "Failed to fetch API entries"))]
            /\ UNCHANGED fibVars
       ELSE IF r.raises # "nothing"
       THEN /\ ret' = [op |-> "GET /api/entries",
                       val |-> Some(HTTPException(500, r.raises))]
            /\ UNCHANGED fibVars
       ELSE LET entries == filter_entries(r.data.entries, q)
                m == [count   |-> Len(entries),
                      filters |-> [category |-> q.category, search |-> q.search,
                                   auth |-> q.auth, https |-> q.https]]
            IN /\ logs' = log_event_logs(logs, "api_entries_fetched", m, SYSTEM, now)
               /\ reputation' = log_event_reputation(reputation, "api_entries_fetched",
                                                     SYSTEM, now)
               /\ ret' = [op |-> "GET /api/entries", val |-> Some(Ok(entries))]
    /\ UNCHANGED <<now, token_expiry_hours, authVars, pinkVars>>

----------------------------------------------------------------------------

InitServices ==
    /\ now = 0
    /\ tokens = EmptyDict
    /\ users = EmptyDict
    /\ issued = 0
    /\ logs = <<>>
    /\ reputation = <<>>
    /\ deployments = <<>>
    /\ tasks = EmptyDict
    /\ started = 0
    /\ ret = [op |-> "init", val |-> None]

\* One service alone, run without a budget of calls.
Init ==
    /\ InitServices
    /\ token_expiry_hours = DEFAULT_TOKEN_EXPIRY_HOURS
    /\ budget = Unlimited

\* The three services together, for runs of at most MaxCalls calls.
InitAll ==
    /\ InitServices
    /\ token_expiry_hours = DEFAULT_TOKEN_EXPIRY_HOURS
    /\ budget = <<MaxCalls>>

\* What the callers pass: usernames, actions, metadata, limits, names, code,
\* configuration, and the deployment ids they ask for (0 is never an id).
LoggedActions == {"deployment_completed", "deployment_error", "auth_attempt"}
Metadatas == {<<>>}
Limits == {-1, 1}
ApiNames == {<<"T", "e", "s", "t", " ", "A", "P", "I">>}
Codes == {<<"code">>}
Configs == {<<>>}
DeploymentIds == 0..MaxDeploys

\* The callers of the three services run together: one user, who logs in,
\* deploys and reads, and the events logged for that user and for "system".
OneName == {"alice"}
FewNames == {"alice", SYSTEM}
FewActions == {"deployment_completed", "auth_attempt"}
TwoNames == {"alice", "bob"}
ScoredActions == {"deployment_completed", "deployment_error"}

\* What deploy is called with: names with capitals, a space, an underscore,
\* a slash and a question mark; two codes; no configuration and one.
TestAPI == <<"T", "e", "s", "t", " ", "A", "P", "I">>
DeployArgs ==
    {[api_name |-> TestAPI, code |-> <<"code">>, config |-> None],
     [api_name |-> TestAPI, code |-> <<"other code">>,
      config |-> [name |-> "prod", build_command |-> "make"]],
     [api_name |-> <<"M", "y", "_", "A", "/", "b", "?">>,
      code |-> <<"code">>, config |-> None]}

AuthCalls(U) ==
    \/ \E u \in U : Authenticate(u)
    \/ \E t \in TokenValues : VerifyToken(t)
    \/ \E t \in TokenValues : RevokeToken(t)
    \/ \E u \in U : GetUser(u)

FibWrites(U, A) ==
    \E a \in A, m \in Metadatas, u \in U : LogEvent(a, m, u)

FibReads(U) ==
    \/ \E u \in U, n \in Limits : GetUserLogs(u, n)
    \/ \E n \in Limits : GetAllLogs(n)
    \/ \E u \in U : GetReputation(u)
    \/ \E n \in Limits : GetLeaderboard(n)

PinkCalls(U) ==
    \/ \E n \in ApiNames, c \in Codes, g \in Configs, u \in U :
          DeployStart(n, c, g, u)
    \/ \E id \in DeploymentIds : DeployStep(id)
    \/ \E id \in DeploymentIds : GetDeploymentStatus(id)
    \/ \E u \in U, n \in Limits : GetUserDeployments(u, n)
    \/ \E id \in DeploymentIds : DeleteDeployment(id)

AuthNext == AuthCalls(UserNames) \/ Tick

LogNext == FibWrites(UserNames, LoggedActions) \/ Tick

\* The readers are asked about every user; events are logged for two users
\* who earn and lose score.
FibNext == FibWrites(TwoNames, ScoredActions) \/ FibReads(UserNames) \/ Tick

\* The callers of the deployment recorder: one user, and deployments that
\* differ in name, in code and in configuration.
PinkNext ==
    \/ \E a \in DeployArgs, u \in OneName :
          DeployStart(a.api_name, a.code, a.config, u)
    \/ \E id \in DeploymentIds : DeployStep(id)
    \/ \E id \in DeploymentIds : GetDeploymentStatus(id)
    \/ \E u \in OneName, n \in Limits : GetUserDeployments(u, n)
    \/ \E id \in DeploymentIds : DeleteDeployment(id)

\* The limits the listings of deployments are asked with.
ListLimits == {-1, 1, MaxDeploys}

\* The deployment recorder called for two users, the login of users, and
\* the status endpoint.
DepNext ==
    \/ \E u \in TwoNames : DeployStart(TestAPI, <<"code">>, None, u)
    \/ \E id \in DeploymentIds : DeployStep(id)
    \/ \E id \in DeploymentIds : GetDeploymentStatus(id)
    \/ \E u \in TwoNames, n \in ListLimits : GetUserDeployments(u, n)
    \/ \E id \in DeploymentIds : DeleteDeployment(id)
    \/ \E u \in TwoNames : login(u)
    \/ \E h \in Headers, id \in DeploymentIds : get_deployment_status_endpoint(h, id)

Next ==
    \/ AuthCalls(OneName)
    \/ FibWrites(FewNames, FewActions)
    \/ FibReads(OneName)
    \/ PinkCalls(OneName)
    \/ Tick

\* The requests the HTTP clients send: one generation request; deployment
\* requests that differ in name, in code and in configuration.
GenRequests ==
    {[api_name |-> <<"C", "a", "t", "s">>, category |-> "Animals"]}
DeployRequests ==
    {[api_name |-> <<"T", "e", "s", "t", " ", "A", "P", "I">>,
      code |-> <<"code">>, config |-> None]}

\* The HTTP clients of one user, and the two service operations no endpoint
\* exposes.
ApiNext ==
    \/ \E u \in OneName : login(u)
    \/ \E h \in Headers, r \in GenRequests : generate_code(h, r)
    \/ \E h \in Headers, r \in DeployRequests : deploy_api(h, r)
    \/ \E id \in DeploymentIds : deploy_api_step(id)
    \/ \E h \in Headers, id \in DeploymentIds : get_deployment_status_endpoint(h, id)
    \/ \E h \in Headers, n \in Limits : get_fibonrose_logs(h, n)
    \/ \E h \in Headers : get_reputation_endpoint(h)
    \/ \E t \in TokenValues : RevokeToken(t)
    \/ \E id \in DeploymentIds : DeleteDeployment(id)
    \/ Tick

\* The endpoints, for runs of at most MaxCalls requests.
SpecApi == InitAll /\ [][ApiNext]_vars

\* The remote catalog: three entries, or none; and the ways the fetch fails.
Pets == <<"P", "e", "t", "s">>
CatalogEntries ==
    << [API |-> <<"C", "a", "t", "s">>, Description |-> <<"f", "a", "c", "t", "s">>,
        Auth |-> <<>>, HTTPS |-> TRUE, Category |-> Pets],
       [API |-> <<"D", "o", "g", "s">>, Description |-> <<"a", " ", "C", "a", "t">>,
        Auth |-> <<"apiKey">>, HTTPS |-> TRUE, Category |-> Pets],
       [API |-> <<"M", "a", "p", "s">>, Description |-> <<"t", "i", "l", "e", "s">>,
        Auth |-> <<"apiKey">>, HTTPS |-> FALSE, Category |-> <<"G", "e", "o">>] >>
Responses ==
    {[raises |-> f] : f \in FetchFailures}
    \cup {[raises |-> "nothing", data |-> [entries |-> CatalogEntries]],
          [raises |-> "nothing", data |-> [entries |-> <<>>]]}

\* The queries: every combination of a category (none, empty, "all" in
\* mixed case, one some entries have, one no entry has), a search text, an
\* auth value, an https value and a limit.
NoSuchCategory == <<"N", "o", "n", "e">>
Queries ==
    [category : {None, Some(<<>>), Some(<<"a", "L", "L">>), Some(Pets), Some(NoSuchCategory)},
     search   : {None, Some(<<"C", "A">>)},
     auth     : {None, Some(<<>>), Some(<<"apiKey">>)},
     https    : {None, Some(TRUE), Some(FALSE)},
     limit    : {2, 100}]

CatalogNext == \E q \in Queries, r \in Responses : get_api_entries(q, r)

\* GET /api/entries alone, for runs of at most MaxFetches requests.
InitCatalog ==
    /\ InitServices
    /\ token_expiry_hours = DEFAULT_TOKEN_EXPIRY_HOURS
    /\ budget = <<MaxFetches>>

SpecCatalog == InitCatalog /\ [][CatalogNext]_vars

\* One user's requests that log events: logins and code generations, as many
\* as the request budget allows.
InitHistory ==
    /\ InitServices
    /\ token_expiry_hours = DEFAULT_TOKEN_EXPIRY_HOURS
    /\ budget = <<MaxRequests>>
HistoryNext ==
    \/ \E u \in OneName : login(u)
    \/ \E h \in Headers, request \in GenRequests : generate_code(h, request)
SpecHistory == InitHistory /\ [][HistoryNext]_vars

\* Deploys of one user under fair scheduling: while a deploy sleeps on a
\* timer the event loop keeps running, and it resumes a deploy whose sleep
\* has elapsed. Deployments are deleted while others run.
FairNext ==
    \/ \E r \in DeployRequests, u \in OneName :
          DeployStart(r.api_name, r.code, r.config, u)
    \/ \E id \in DeploymentIds : DeployStep(id)
    \/ \E id \in DeploymentIds : DeleteDeployment(id)
SpecPinkFair ==
    /\ Init
    /\ [][FairNext]_vars
    /\ WF_vars(\E id \in 1..MaxDeploys : DeployStep(id))

\* Deploy requests of the users who logged in, running concurrently, each
\* finishing or failing, with code generations in between; "system" is a
\* username the login accepts.
DeployApiNext ==
    \/ \E u \in FewNames : login(u)
    \/ \E h \in Headers, r \in GenRequests : generate_code(h, r)
    \/ \E h \in Headers, r \in DeployRequests : deploy_api(h, r)
    \/ \E id \in DeploymentIds : deploy_api_step(id)
    \/ \E id \in DeploymentIds, e \in DeployFaults : deploy_api_raise(id, e)
SpecDeployApi == InitAll /\ [][DeployApiNext]_vars

\* Logins that succeed and logins during which authenticate fails.
LoginNext ==
    \/ \E u \in FewNames : login(u)
    \/ \E u \in FewNames, s \in Str401 : login_failed(u, s)
SpecLogin == InitAll /\ [][LoginNext]_vars

\* The events of one user, one after the other: every action of the impact
\* table, and an action outside it, logged at the score the event before
\* left, through every score of ScoreRange.
UnknownAction == "page_viewed"
LastScore == IF ret.op = "_update_reputation" THEN ret.val[1].after.score ELSE 0
TierNext ==
    \E action \in ImpactActions \cup {UnknownAction} :
        UpdateReputationAt(LastScore, action)
SpecTier == Init /\ [][TierNext]_vars

\* Clients that log in under every username the login accepts, generate
\* code and read their log listing, with one record or the default 50.
LogsLimits == {1, 50}
LogsNext ==
    \/ \E u \in UserNames : login(u)
    \/ \E h \in Headers, r \in GenRequests : generate_code(h, r)
    \/ \E h \in Headers, n \in LogsLimits : get_fibonrose_logs(h, n)
SpecLogs == InitAll /\ [][LogsNext]_vars

SpecAuth == Init /\ [][AuthNext]_vars

\* The event log and the ledger under log_event calls.
SpecLog == Init /\ [][LogNext]_vars

\* The event log and the ledger with their readers.
SpecFib == Init /\ [][FibNext]_vars

\* The deployment recorder alone.
SpecPink == Init /\ [][PinkNext]_vars

\* The deployment recorder behind the status endpoint, for runs of at most
\* MaxCalls calls.
SpecDeployments == InitAll /\ [][DepNext]_vars

\* The three services together.
Spec == InitAll /\ [][Next]_vars

\* _calculate_level on every score of ScoreRange.
LevelNext == \E score \in ScoreRange : CalculateLevel(score)

SpecLevel == Init /\ [][LevelNext]_vars

\* The token and user store under every value of the expiry setting.
InitSettings ==
    /\ InitServices
    /\ token_expiry_hours \in ExpirySettings
    /\ budget = Unlimited

SpecSettings == InitSettings /\ [][AuthNext]_vars

----------------------------------------------------------------------------
(* Properties *)

RECURSIVE SumImpacts(_)
SumImpacts(lg) ==
    IF lg = <<>> THEN 0 ELSE Head(lg).reputation_impact + SumImpacts(Tail(lg))

\* The records of the log whose user is u.
RecordsOf(u) == LET OfUser(e) == e.user = u IN SelectSeq(logs, OfUser)

\* The score the ledger holds for u: 0 when u has no entry.
ScoreOf(u) == IF u \in rep_names(reputation) THEN rep_get(reputation, u).score ELSE 0

\* C1: in every reachable state, for every user other than "system", the
\* score in the reputation ledger equals the sum of reputation_impact over
\* the log records of that user (0 when the user has no ledger entry).
C1_ScoreIsSumOfImpacts ==
    \A u \in UserNames \ {SYSTEM} : ScoreOf(u) = SumImpacts(RecordsOf(u))

\* C1 witness: one user has a positive and a negative record, another user
\* has a record of its own.
C1_Witness ==
    /\ Len(RecordsOf("alice")) = 2
    /\ ScoreOf("alice") = 25
    /\ ScoreOf("bob") = 50

\* The tiers, lowest first, and the scores at which each tier after the
\* first begins.
Tiers == <<"Novice", "Apprentice", "Adept", "Expert", "Master", "Grandmaster">>
Cutoffs == <<50, 150, 300, 500, 1000>>
TierOf(level) == CHOOSE i \in DOMAIN Tiers : Tiers[i] = level
CutoffsReached(score) == Cardinality({i \in DOMAIN Cutoffs : Cutoffs[i] <= score})

\* C2: in every reachable state, the level of each reputation entry is the
\* tier of the entry's current score: Novice below 50 (negative scores
\* too), then Apprentice, Adept, Expert, Master, and Grandmaster from 1000.
C2_LevelMatchesScore ==
    \A i \in DOMAIN reputation :
        reputation[i].level = Tiers[CutoffsReached(reputation[i].score) + 1]

\* C2 witness: one entry has a negative score and another has left the
\* lowest tier.
C2_Witness ==
    \E i, j \in DOMAIN reputation :
        /\ reputation[i].score < 0
        /\ reputation[i].level = "Novice"
        /\ reputation[j].score >= 50
        /\ reputation[j].level = "Apprentice"

\* C3: _calculate_level maps score 0 to Novice and every score to the tier
\* of the highest cutoff (50, 150, 300, 500, 1000) it has reached; it is
\* monotonic (a <= b gives a tier of a not above the tier of b) and every
\* one of the six tiers is the level of some score.
C3_LevelsMonotonic ==
    ret.op = "_calculate_level" =>
        LET a == ret.val[1].score
            level == ret.val[1].level
        IN /\ level \in {Tiers[i] : i \in DOMAIN Tiers}
           /\ a = 0 => level = "Novice"
           /\ TierOf(level) = CutoffsReached(a) + 1
           /\ \A i \in DOMAIN Cutoffs :
                 _calculate_level(Cutoffs[i]) = Tiers[i + 1]
           /\ \A b \in ScoreRange :
                 a <= b => TierOf(level) <= TierOf(_calculate_level(b))
           /\ \A i \in DOMAIN Tiers :
                 \E b \in ScoreRange : _calculate_level(b) = Tiers[i]

\* C3 witness: the call on a score that is exactly a cutoff.
C3_Witness ==
    /\ ret.op = "_calculate_level"
    /\ ret.val[1].score = 1000
    /\ ret.val[1].level = "Grandmaster"

\* A token that was issued and is no longer stored is never stored again.
GoneStaysGone ==
    \A t \in 1..issued : t \notin DOMAIN tokens => t \notin DOMAIN tokens'

\* More than the expiry duration has passed since token t was issued.
DurationElapsed(t) ==
    now > fromisoformat(tokens[t].created_at) + AUTH_EXPIRY_HOURS

\* C4: a verify_token call on a stored token made after the token's expiry
\* duration has elapsed returns None and removes the token from the store;
\* a removed token never returns to the store, and verify_token of a token
\* that is not stored returns None.
C4_ExpiredTokenRejectedAndRemoved ==
    [][/\ \A t \in DOMAIN tokens :
             (DurationElapsed(t) /\ VerifyToken(t)) =>
                 /\ ret'.val = None
                 /\ t \notin DOMAIN tokens'
       /\ GoneStaysGone
       /\ \A t \in TokenValues \ DOMAIN tokens :
             VerifyToken(t) => ret'.val = None]_vars

\* C4 witness: the only token issued has been verified two days after its
\* issue and is gone.
C4_Witness ==
    /\ ret.op = "verify_token"
    /\ ret.val = None
    /\ issued = 1
    /\ tokens = EmptyDict
    /\ \A u \in DOMAIN users :
          now > fromisoformat(users[u].last_login) + AUTH_EXPIRY_HOURS

\* C5: authenticate binds the new token to its username and the binding
\* never changes; verify_token of a stored token whose expiry duration has
\* not elapsed returns a user-info record with that username and keeps the
\* token; verify_token of a string that was never issued returns None and
\* leaves the token store and the user store unchanged.
C5_VerifyAcceptsIssuedRejectsUnknown ==
    [][/\ \A u \in UserNames :
             Authenticate(u) =>
                 /\ issued' \in DOMAIN tokens' \ DOMAIN tokens
                 /\ tokens'[issued'].username = u
                 /\ ret'.val[1].token = issued'
       /\ \A t \in DOMAIN tokens \cap DOMAIN tokens' :
             tokens'[t].username = tokens[t].username
       /\ \A t \in DOMAIN tokens :
             (~DurationElapsed(t) /\ VerifyToken(t)) =>
                 /\ ret'.val # None
                 /\ ret'.val[1].username = tokens[t].username
                 /\ ret'.val[1].token = t
                 /\ tokens' = tokens
       /\ \A t \in TokenValues :
             (t \notin 1..issued /\ VerifyToken(t)) =>
                 /\ ret'.val = None
                 /\ tokens' = tokens
                 /\ users' = users]_vars

\* C5 witness: a token verified exactly at the end of its expiry duration
\* is accepted.
C5_Witness ==
    /\ ret.op = "verify_token"
    /\ ret.val # None
    /\ \E t \in DOMAIN tokens :
          /\ ret.val[1].token = t
          /\ ret.val[1].username = tokens[t].username
          /\ now = fromisoformat(tokens[t].created_at) + AUTH_EXPIRY_HOURS

\* C6: revoke_token returns True exactly when the token is stored at the
\* call; it removes that token and no other and leaves the users alone;
\* when the token is not stored it changes nothing; a revoked token never
\* returns to the store, and verify_token of it returns None.
C6_RevokeRemovesOnlyThatToken ==
    [][/\ \A t \in TokenValues :
             RevokeToken(t) =>
                 /\ ret'.val = Some(t \in DOMAIN tokens)
                 /\ DOMAIN tokens' = DOMAIN tokens \ {t}
                 /\ \A x \in DOMAIN tokens' : tokens'[x] = tokens[x]
                 /\ users' = users
                 /\ verify_result(tokens', users', t, now') = None
       /\ GoneStaysGone
       /\ \A t \in TokenValues :
             (t \notin DOMAIN tokens /\ VerifyToken(t)) =>
                 (ret'.val = None /\ tokens' = tokens)]_vars

\* C6 witness: one of two tokens of the same user has been revoked, the
\* other is still stored.
C6_Witness ==
    /\ ret.op = "revoke_token"
    /\ ret.val = Some(TRUE)
    /\ issued = 2
    /\ \E t \in DOMAIN tokens :
          /\ Cardinality(DOMAIN tokens) = 1
          /\ tokens[t].username \in DOMAIN users
          /\ Cardinality(DOMAIN users) = 1

\* C7 (as claimed): the expires_at of every stored token is its issue time
\* plus the configured token_expiry_hours, whatever the setting's value.
C7_ExpiryIsConfiguredDuration ==
    \A t \in DOMAIN tokens :
        fromisoformat(tokens[t].expires_at) =
            fromisoformat(tokens[t].created_at) + token_expiry_hours

\* C8: no step removes a user record or changes its username or
\* created_at; authenticate creates the record on the first login of a
\* username, with created_at and last_login the time of the login, and on
\* a later login changes last_login only; no other call changes the users.
C8_UsersCreatedOnceNeverDeleted ==
    [][/\ \A u \in DOMAIN users :
             /\ u \in DOMAIN users'
             /\ users'[u].username = users[u].username
             /\ users'[u].created_at = users[u].created_at
       /\ \A u \in UserNames :
             Authenticate(u) =>
                 /\ DOMAIN users' = DOMAIN users \cup {u}
                 /\ \A x \in DOMAIN users \ {u} : users'[x] = users[x]
                 /\ users'[u].username = u
                 /\ fromisoformat(users'[u].last_login) = now
                 /\ u \notin DOMAIN users =>
                       fromisoformat(users'[u].created_at) = now
       /\ (\A u \in UserNames : ~Authenticate(u)) => users' = users]_vars

\* C8 witness: a user who logged in again later, and whose tokens are all
\* gone, still has the record of the first login.
C8_Witness ==
    \E u \in DOMAIN users :
        /\ fromisoformat(users[u].last_login) > fromisoformat(users[u].created_at)
        /\ issued = 2
        /\ tokens = EmptyDict

\* C9: log_event with user "system" appends its record, with the action's
\* configured impact, to the event log and leaves the reputation ledger
\* unchanged; the ledger never holds an entry for "system".
C9_SystemEventsSkipLedger ==
    [][/\ \A a \in LoggedActions, m \in Metadatas :
             LogEvent(a, m, SYSTEM) =>
                 /\ reputation' = reputation
                 /\ Len(logs') = Len(logs) + 1
                 /\ logs'[Len(logs')].user = SYSTEM
                 /\ logs'[Len(logs')].action = a
                 /\ logs'[Len(logs')].reputation_impact = impact_of(a)
       /\ SYSTEM \notin rep_names(reputation')]_vars

\* C9 witness: a "system" event with a non-zero impact was logged while the
\* ledger holds a user's entry.
C9_Witness ==
    /\ ret.op = "log_event"
    /\ ret.val[1].user = SYSTEM
    /\ ret.val[1].reputation_impact = 50
    /\ logs[Len(logs)] = ret.val[1]
    /\ rep_names(reputation) = {"alice"}
    /\ ScoreOf("alice") = 0 - 25

\* C10: the event log is append-only: a log_event call adds exactly one
\* record, the new one, at the end; every step keeps the records already
\* appended, in their order; a step that is not a log_event call leaves the
\* log as it is.
C10_LogAppendOnly ==
    [][/\ Len(logs') >= Len(logs)
       /\ SubSeq(logs', 1, Len(logs)) = logs
       /\ \A a \in FewActions, m \in Metadatas, u \in FewNames :
             LogEvent(a, m, u) =>
                 /\ Len(logs') = Len(logs) + 1
                 /\ logs'[Len(logs')].action = a
                 /\ logs'[Len(logs')].user = u
                 /\ logs'[Len(logs')].timestamp = isoformat(now)
       /\ (\A a \in FewActions, m \in Metadatas, u \in FewNames :
              ~LogEvent(a, m, u)) => logs' = logs]_vars

\* C10 witness: the log holds two records of different times and a reader
\* that sorts by time has returned.
C10_Witness ==
    /\ Len(logs) = 2
    /\ logs[1].timestamp # logs[2].timestamp
    /\ ret.op = "get_all_logs"
    /\ Len(ret.val) = 1

----------------------------------------------------------------------------
(* Properties of the readers *)

\* s with its elements in the opposite order.
Reverse(s) == [i \in DOMAIN s |-> s[Len(s) + 1 - i]]

\* p is s cut after some element.
IsPrefix(p, s) == Len(p) <= Len(s) /\ SubSeq(s, 1, Len(p)) = p

\* C11: every get_user_logs(username, limit) call returns only records whose
\* user is username, in the reverse of the order they were appended in (the
\* newest appended first, also among records of equal timestamp), and never
\* more than limit records, whatever integer limit is (none when limit is
\* below 1).
C11_UserLogsNewestAppendedFirst ==
    [][\A u \in UserNames, n \in Limits :
          GetUserLogs(u, n) =>
              /\ \A i \in DOMAIN ret'.val : ret'.val[i].user = u
              /\ IsPrefix(ret'.val, Reverse(RecordsOf(u)))
              /\ Len(ret'.val) <= (IF n < 0 THEN 0 ELSE n)]_vars

\* C12: a get_reputation call for a username without a ledger entry returns
\* score 0, level Novice, total_actions 0 and no last activity, and leaves
\* the ledger as it was: no entry is created, and the leaderboard of every
\* length is the same after the call as before.
C12_ReputationOfUnknownUserIsDefault ==
    [][\A u \in UserNames :
          (GetReputation(u) /\ u \notin rep_names(reputation)) =>
              /\ ret'.val = Some([username |-> u, score |-> 0, level |-> "Novice",
                                  total_actions |-> 0, last_activity |-> None])
              /\ reputation' = reputation
              /\ u \notin rep_names(reputation')
              /\ \A n \in 0..(Len(reputation) + 1) :
                    get_leaderboard(reputation', n) = get_leaderboard(reputation, n)]_vars

\* get_reputation has answered for a user without an entry while another
\* user holds one.
C12_Witness ==
    /\ ret.op = "get_reputation"
    /\ ret.val[1].username \notin rep_names(reputation)
    /\ ret.val[1].last_activity = None
    /\ reputation # <<>>

\* r holds at most n rows, each the row of a different ledger entry of rep,
\* in order of non-increasing score, and no entry of rep left out of r has a
\* higher score than a row of r.
TopScores(r, rep, n) ==
    /\ Len(r) <= n
    /\ \A i \in DOMAIN r :
          /\ r[i].username \in rep_names(rep)
          /\ r[i] = leaderboard_row(rep_get(rep, r[i].username))
    /\ \A i, j \in DOMAIN r : i < j =>
          /\ r[i].score >= r[j].score
          /\ r[i].username # r[j].username
    /\ \A k \in DOMAIN rep :
          (\A i \in DOMAIN r : r[i].username # rep[k].username) =>
              \A i \in DOMAIN r : rep[k].score <= r[i].score

\* C13 as first stated: every get_leaderboard(limit) call returns at most
\* limit entries in order of non-increasing score, the top scores, for every
\* limit it is called with.
C13_LeaderboardAtMostLimit ==
    [][\A n \in Limits :
          GetLeaderboard(n) => TopScores(ret'.val, reputation, n)]_vars

\* C13: for every limit of 0 or more, get_leaderboard(limit) returns at most
\* limit entries in order of non-increasing score, and they are the top
\* scores: no user left out has a strictly higher score than a user in the
\* result. Every call returns what get_leaderboard computes on the ledger.
C13_LeaderboardIsTopScores ==
    [][\A n \in Limits :
          GetLeaderboard(n) =>
              /\ ret'.val = get_leaderboard(reputation, n)
              /\ n >= 0 => TopScores(ret'.val, reputation, n)
              /\ \A m \in 0..(Len(reputation) + 1) :
                    TopScores(get_leaderboard(reputation, m), reputation, m)]_vars

\* get_leaderboard(1) has returned the one higher score of two users, the
\* user who entered the ledger second.
C13_Witness ==
    /\ ret.op = "get_leaderboard"
    /\ Len(ret.val) = 1
    /\ Len(reputation) = 2
    /\ reputation[1].score < reputation[2].score
    /\ ret.val[1].username = reputation[2].username

----------------------------------------------------------------------------
(* Properties of the endpoints *)

\* The header carries no token, or one that is not stored (never issued, or
\* revoked), or one whose expiry duration has elapsed.
BadToken(h) ==
    \/ h = None
    \/ h[1] \notin DOMAIN tokens
    \/ DurationElapsed(h[1])

\* A request with header h to one of the authenticated operations.
AuthenticatedOperation(h) ==
    \/ \E r \in GenRequests : generate_code(h, r)
    \/ \E r \in DeployRequests : deploy_api(h, r)
    \/ \E id \in DeploymentIds : get_deployment_status_endpoint(h, id)
    \/ \E n \in Limits : get_fibonrose_logs(h, n)
    \/ get_reputation_endpoint(h)

\* C14: a request to an authenticated operation (generate, deploy,
\* deployment status, logs, reputation) whose token is missing, unknown,
\* revoked or expired is answered 401 with nothing but the error detail, and
\* the handler does not run: the event log, the reputation ledger, the
\* stored deployments and the deployments under way are unchanged.
C14_BadTokenRejectedBeforeLogic ==
    [][\A h \in Headers :
          (BadToken(h) /\ AuthenticatedOperation(h)) =>
              /\ ret'.val[1].status_code = 401
              /\ DOMAIN ret'.val[1] = {"status_code", "detail"}
              /\ logs' = logs
              /\ reputation' = reputation
              /\ deployments' = deployments
              /\ tasks' = tasks
              /\ started' = started]_vars

\* A deploy request has been answered 401 for a token that was issued and is
\* no longer stored, after a login had been logged.
C14_Witness ==
    /\ ret.op = "POST /api/deploy"
    /\ ret.val[1] = HTTPException(401, "Invalid DeafAUTH token")
    /\ issued > 0
    /\ DOMAIN tokens = {}
    /\ logs # <<>>
    /\ deployments = <<>>

----------------------------------------------------------------------------
(* Properties of the deployment recorder *)

\* api_name lower-cased, with a hyphen for every space and every underscore.
SlugOf(api_name) ==
    [i \in DOMAIN api_name |->
        IF api_name[i] \in {" ", "_"} THEN "-" ELSE lower_char(api_name[i])]

\* The sixteen steps of a deployment: the type of each line and the fixed
\* text its message opens with.
StepTypes ==
    <<"info", "info", "success", "info", "success", "info", "success", "info",
      "success", "info", "success", "info", "success", "info", "success", "success">>
StepTexts ==
    <<"PinkSync: Initiating deployment...", "Creating API endpoint files...",
      "Created: api/", "Generating React component...",
      "Created: components/", "Writing configuration files...",
      "Configuration files ready", "Pushing to GitHub...",
      "Code committed to repository", "Triggering deployment...",
      "Build started", "Building production bundle...",
      "Build completed successfully", "Deploying to mbtq.dev...",
      "Live at: ", "Deployment complete!">>

\* The messages of the log of a deployment of api_name.
MessagesOf(log) == [i \in DOMAIN log |-> log[i].message]
StepMessages(api_name) ==
    MessagesOf(deploy_lines(0, api_name, 0) \o deploy_lines(1, api_name, 0)
               \o deploy_lines(2, api_name, 0) \o deploy_lines(3, api_name, 0)
               \o deploy_lines(4, api_name, 0) \o deploy_lines(5, api_name, 0)
               \o deploy_lines(6, api_name, 0) \o deploy_lines(7, api_name, 0)
               \o deploy_lines(8, api_name, 0))

\* C15: whatever api_name, code and config deploy was called with, what it
\* returns has status "deployed", a log of the same sixteen steps in the
\* same order, ending with the success line "Deployment complete!", and the
\* url https://mbtq.dev/api/<slug>, slug being api_name lower-cased with
\* hyphens for spaces and underscores ("Test API" gives .../test-api); the
\* log messages and the url are determined by api_name alone, so two stored
\* deployments of one name have the same messages and url whatever their
\* code and config.
C15_DeployResultIsFixedSteps ==
    /\ ret.op = "deploy" =>
          LET r == ret.val[1]
              d == dep_get(deployments, r.deployment_id)
          IN /\ r.deployment_id \in dep_ids(deployments)
             /\ r.status = "deployed"
             /\ Len(r.logs) = 16
             /\ \A i \in 1..16 : /\ r.logs[i].type = StepTypes[i]
                                 /\ Head(r.logs[i].message) = StepTexts[i]
             /\ r.logs[16] = [timestamp |-> r.logs[16].timestamp,
                              message |-> <<"Deployment complete!">>,
                              type |-> "success"]
             /\ r.url = <<"https://mbtq.dev/api/">> \o SlugOf(d.api_name)
             /\ d.api_name = TestAPI =>
                   r.url = <<"https://mbtq.dev/api/", "t", "e", "s", "t", "-", "a", "p", "i">>
             /\ MessagesOf(r.logs) = StepMessages(d.api_name)
             /\ r.logs = d.logs /\ r.url = d.url
    /\ \A i, j \in DOMAIN deployments :
          deployments[i].api_name = deployments[j].api_name =>
              /\ MessagesOf(deployments[i].logs) = MessagesOf(deployments[j].logs)
              /\ deployments[i].url = deployments[j].url

\* deploy has returned for "Test API" deployed with the second code and a
\* configuration.
C15_Witness ==
    /\ ret.op = "deploy"
    /\ \E i \in DOMAIN deployments :
          /\ deployments[i].deployment_id = ret.val[1].deployment_id
          /\ deployments[i].api_name = TestAPI
          /\ deployments[i].code = <<"other code">>
          /\ deployments[i].config # EmptyDict

\* Characters that cannot stand unescaped in a segment of a URL path.
UnsafeInPath == {" ", "/", "?", "#", "%", "\\", "&", "<", ">", "\""}

\* C16: the slug of every stored deployment is URL-safe: none of its
\* characters is unsafe in a URL path segment, whatever the name was.
C16_SlugIsUrlSafe ==
    \A i \in DOMAIN deployments :
        \A k \in DOMAIN deployments[i].api_slug :
            deployments[i].api_slug[k] \notin UnsafeInPath

\* The ids of the stored deployments whose owner is u.
OwnedBy(u) ==
    {deployments[i].deployment_id :
        i \in {k \in DOMAIN deployments : deployments[k].user = u}}

\* C17: get_deployment_status(id) succeeds for every stored deployment,
\* through the endpoint for whichever authenticated user asks, the owner or
\* not; get_user_deployments(username, limit) returns only stored
\* deployments owned by username, each once, and all of them up to the
\* limit (for a limit of 0 or more: as many as there are, or limit).
C17_StatusUnscopedListingByOwner ==
    [][/\ \A id \in DeploymentIds :
             (GetDeploymentStatus(id) /\ id \in dep_ids(deployments)) =>
                 /\ ~IsRaised(ret'.val)
                 /\ ret'.val[1].deployment_id = id
       /\ \A h \in Headers, id \in DeploymentIds :
             (/\ get_deployment_status_endpoint(h, id)
              /\ ~BadToken(h)
              /\ id \in dep_ids(deployments)) =>
                 /\ ret'.val[1].status_code = 200
                 /\ ret'.val[1].body.deployment_id = id
                 /\ ret'.val[1].body.url = dep_get(deployments, id).url
       /\ \A u \in TwoNames, n \in ListLimits :
             GetUserDeployments(u, n) =>
                 /\ \A i \in DOMAIN ret'.val :
                       ret'.val[i].deployment_id \in OwnedBy(u)
                 /\ \A i, j \in DOMAIN ret'.val :
                       i # j => ret'.val[i].deployment_id # ret'.val[j].deployment_id
                 /\ n >= 0 =>
                       Len(ret'.val) = (IF Cardinality(OwnedBy(u)) < n
                                        THEN Cardinality(OwnedBy(u)) ELSE n)]_vars

\* The status endpoint has answered 200 for a stored deployment to a user
\* who is not its owner: no stored token is the owner's.
C17_Witness ==
    /\ ret.op = "GET /api/deployments/{deployment_id}"
    /\ ret.val[1].status_code = 200
    /\ \A t \in DOMAIN tokens :
          tokens[t].username # dep_get(deployments, ret.val[1].body.deployment_id).user

\* C18: delete_deployment(id) returns True exactly when id is stored; it
\* removes that record alone: every other deployment stays as it was, and
\* the event log, the ledger, the tokens, the users and the deployments
\* under way are unchanged. After it get_deployment_status(id) raises, as it
\* does for every id that is not stored, and the endpoint answers 404; an id
\* that has left the store never returns to it.
C18_DeleteRemovesOnlyThatRecord ==
    [][/\ \A id \in DeploymentIds :
             DeleteDeployment(id) =>
                 /\ ret'.val = Some(id \in dep_ids(deployments))
                 /\ dep_ids(deployments') = dep_ids(deployments) \ {id}
                 /\ Len(deployments') = Cardinality(dep_ids(deployments'))
                 /\ \A j \in dep_ids(deployments') :
                       dep_get(deployments', j) = dep_get(deployments, j)
                 /\ logs' = logs /\ reputation' = reputation
                 /\ tokens' = tokens /\ users' = users /\ tasks' = tasks
                 /\ IsRaised(get_deployment_status(deployments', id))
       /\ \A id \in DeploymentIds :
             (GetDeploymentStatus(id) /\ id \notin dep_ids(deployments)) =>
                 ret'.val = Raised("ValueError")
       /\ \A h \in Headers, id \in DeploymentIds :
             (/\ get_deployment_status_endpoint(h, id)
              /\ ~BadToken(h)
              /\ id \notin dep_ids(deployments)) =>
                 ret'.val[1] = HTTPException(404, "Deployment not found")
       /\ \A id \in 1..started :
             (id \notin DOMAIN tasks /\ id \notin dep_ids(deployments)) =>
                 id \notin dep_ids(deployments')]_vars

\* delete_deployment has returned True for one of two stored deployments,
\* and the other is still stored.
C18_Witness ==
    /\ ret.op = "delete_deployment"
    /\ ret.val = Some(TRUE)
    /\ Len(deployments) = 1
    /\ started = 2
    /\ DOMAIN tasks = {}

----------------------------------------------------------------------------
(* Properties of GET /api/entries *)

\* Entry e passes the filters of query q, a filter being in force when
\* Given says its value is given.
Passes(e, q, Given(_)) ==
    /\ (Given(q.category) /\ lower(q.category[1]) # <<"a", "l", "l">>) =>
           e.Category = q.category[1]
    /\ Given(q.search) =>
           \/ contains(lower(e.API), lower(q.search[1]))
           \/ contains(lower(e.Description), lower(q.search[1]))
    /\ Given(q.auth) => e.Auth = q.auth[1]
    /\ q.https # None => e.HTTPS = q.https[1]

\* The first n elements of s, or all of s when it has fewer.
FirstN(s, n) == SubSeq(s, 1, IF Len(s) < n THEN Len(s) ELSE n)

\* What the claim requires of the answer to query q on a fetched catalog:
\* with category "all" in any letter case, the answer of the same query
\* without a category; with a category no entry has, an empty list; and in
\* general the entries that pass all the filters in force, up to the limit.
EntriesAnswer(q, r, out, Given(_)) ==
    LET PassesAll(e) == Passes(e, q, Given)
        NoCategory == [q EXCEPT !.category = None]
        PassesRest(e) == Passes(e, NoCategory, Given)
    IN /\ out.status_code = 200
       /\ out.body = FirstN(SelectSeq(r.data.entries, PassesAll), q.limit)
       /\ (q.category # None /\ lower(q.category[1]) = <<"a", "l", "l">>) =>
              out.body = FirstN(SelectSeq(r.data.entries, PassesRest), q.limit)
       /\ (/\ Given(q.category)
           /\ lower(q.category[1]) # <<"a", "l", "l">>
           /\ \A i \in DOMAIN r.data.entries :
                 r.data.entries[i].Category # q.category[1]) =>
              out.body = <<>>

\* The step is a request with the filters of q answered from a fetched
\* catalog: the event it appends records the filters.
Fetched(q, r) ==
    /\ r.raises = "nothing"
    /\ Len(logs') = Len(logs) + 1
    /\ logs'[Len(logs')].metadata.filters =
           [category |-> q.category, search |-> q.search,
            auth |-> q.auth, https |-> q.https]

\* A filter value that is given at all.
IsGiven(x) == x # None

\* A filter value that is given and is not the empty text.
IsGivenNotEmpty(x) == x # None /\ x[1] # <<>>

\* C19 as first stated: every filter whose value is given is in force, the
\* empty text included.
C19_FiltersAreConjunction ==
    [][\A q \in Queries, r \in Responses :
          (Fetched(q, r) /\ get_api_entries(q, r)) =>
              EntriesAnswer(q, r, ret'.val[1], IsGiven)]_vars

\* C19: for every fetched catalog, get_api_entries with category "all" in
\* any letter case returns the entries it returns with no category filter
\* (up to the limit); with a category, not empty, that no entry has it
\* answers 200 with an empty list; and the filters category, search, auth
\* and https combine as a conjunction, an empty category, search or auth
\* value being no filter.
C19_NonEmptyFiltersAreConjunction ==
    [][\A q \in Queries, r \in Responses :
          (Fetched(q, r) /\ get_api_entries(q, r)) =>
              EntriesAnswer(q, r, ret'.val[1], IsGivenNotEmpty)]_vars

\* A request for a category that no entry of the catalog has, with the other
\* filters given too, has been answered 200 with an empty list and logged.
C19_Witness ==
    /\ ret.op = "GET /api/entries"
    /\ ret.val[1] = Ok(<<>>)
    /\ logs # <<>>
    /\ logs[Len(logs)].metadata.filters.category = Some(NoSuchCategory)
    /\ logs[Len(logs)].metadata.filters.https = Some(FALSE)
    /\ logs[Len(logs)].metadata.count = 0

\* C20: when the fetch of the remote catalog fails, by a network error, a
\* status that is not a success or a body that cannot be parsed,
\* get_api_entries answers with the one generic 502 failure and appends no
\* event to the log.
C20_FetchFailureIs502 ==
    [][\A q \in Queries, r \in Responses :
          (get_api_entries(q, r) /\ r.raises \in FetchFailures) =>
              /\ ret'.val[1] = HTTPException(502, "Failed to fetch API entries")
              /\ logs' = logs
              /\ reputation' = reputation]_vars


----------------------------------------------------------------------------
(* The stored history of a ledger entry *)

\* The number of impacts get_reputation exposes (history[-10:]).
HistoryBound == 10

\* C21: the history stored in a user's ledger entry never holds more than
\* the fixed number of impacts that get_reputation exposes, and
\* get_reputation exposes the last of them in order.
C21_HistoryIsBounded ==
    \A u \in rep_names(reputation) :
        LET e == rep_get(reputation, u)
            shown == get_reputation(reputation, u).recent_history
        IN /\ Len(e.history) <= HistoryBound
           /\ Len(shown) <= HistoryBound
           /\ \A i \in 1..Len(shown) :
                  shown[i] = e.history[Len(e.history) - Len(shown) + i]


----------------------------------------------------------------------------
(* Every deploy finishes *)

\* Deployment id is stored with status "deployed" and deploy has just
\* returned its result.
Finished(id) ==
    /\ id \in dep_ids(deployments)
    /\ dep_get(deployments, id).status = "deployed"
    /\ ret = [op |-> "deploy", val |-> Some(deploy_result(dep_get(deployments, id)))]

\* C22: under fair scheduling of its timed steps every started deploy
\* eventually stores its record with status "deployed" under its identifier
\* and returns, and a stored deployment never has another status.
C22_DeployEventuallyFinishes ==
    /\ \A id \in 1..MaxDeploys : (id \in DOMAIN tasks) ~> Finished(id)
    /\ [](\A i \in 1..Len(deployments) : deployments[i].status = "deployed")

\* Two deploys were running at once and the one started first has finished
\* while the other is still running.
C22_Witness ==
    /\ Finished(1)
    /\ 2 \in DOMAIN tasks
    /\ tasks[2].sleeps > 1


----------------------------------------------------------------------------
(* The records and the score of a deploy request *)

\* The record log_event appended last.
LastRecord(lg) == lg[Len(lg)]

\* One record for user u with the given action was appended, and nothing
\* else in the log changed.
Appended(action, u) ==
    /\ Len(logs') = Len(logs) + 1
    /\ SubSeq(logs', 1, Len(logs)) = logs
    /\ LastRecord(logs').action = action
    /\ LastRecord(logs').user = u

\* The score and the number of actions of u moved by these amounts.
Moved(u, by, actions) ==
    /\ get_reputation(reputation', u).score = get_reputation(reputation, u).score + by
    /\ get_reputation(reputation', u).total_actions =
           get_reputation(reputation, u).total_actions + actions

\* C23: a deploy request of an authenticated user appends deployment_started
\* for that user before the deployment runs (score +15, one action), and
\* deployment_completed once the deployment record is stored (score +50, one
\* action, a 200 response): +65 and two actions in all; if the deployment
\* raises, deployment_error is appended instead (score -25, -10 in all),
\* nothing is stored and the response is an error.
C23_DeployRecordsAndScore ==
    [][/\ \A h \in Headers, r \in DeployRequests :
            (Authenticated(h) /\ deploy_api(h, r)) =>
                /\ Appended("deployment_started", auth_user(h))
                /\ Moved(auth_user(h), 15, 1)
                /\ started' \in DOMAIN tasks'
                /\ started' \notin dep_ids(deployments')
       /\ \A id \in DeploymentIds :
            (deploy_api_step(id) /\ id \notin DOMAIN tasks') =>
                /\ Appended("deployment_completed", tasks[id].user)
                /\ Moved(tasks[id].user, 50, 1)
                /\ id \in dep_ids(deployments')
                /\ ret'.val[1].status_code = 200
       /\ \A id \in DeploymentIds, e \in DeployFaults :
            deploy_api_raise(id, e) =>
                /\ Appended("deployment_error", tasks[id].user)
                /\ Moved(tasks[id].user, -25, 1)
                /\ id \notin dep_ids(deployments')
                /\ ret'.val[1].status_code = 500
      ]_vars


----------------------------------------------------------------------------
(* The outcomes of a login *)

----------------------------------------------------------------------------
(* No reputation update is lost *)

\* C25: whatever the interleaving of concurrent requests, suspended or
\* finished, the score of every user other than the "system" sentinel equals
\* the sum of the impacts of that user's records in the log, and
\* total_actions equals the number of those records.
C25_NoLostUpdate ==
    \A u \in UserNames \ {SYSTEM} :
        /\ get_reputation(reputation, u).score = SumImpacts(RecordsOf(u))
        /\ get_reputation(reputation, u).total_actions = Len(RecordsOf(u))

\* Two deploy requests of alice ran interleaved, the second starting before
\* the first ended; one completed, one failed, and both have finished.
C25_Witness ==
    /\ tasks = EmptyDict
    /\ started = 2
    /\ Len(RecordsOf("alice")) = 5
    /\ RecordsOf("alice")[2].action = "deployment_started"
    /\ RecordsOf("alice")[3].action = "deployment_started"
    /\ get_reputation(reputation, "alice").score = 60
    /\ get_reputation(reputation, "alice").total_actions = 5


----------------------------------------------------------------------------
(* Tokens and the user records they name *)

\* C26: in every reachable state every stored token names a username that
\* has a record in the user store, and verify_token of a stored token that
\* has not expired returns the user info, never None.
C26_TokenNamesStoredUser ==
    \A t \in DOMAIN tokens :
        /\ tokens[t].username \in DOMAIN users
        /\ ~is_expired(tokens[t], now) =>
               verify_result(tokens, users, t, now) # None

\* Tokens of two users are stored, issued a day apart; the older one has
\* expired, unverified, and the newer one has just been verified.
C26_Witness ==
    /\ DOMAIN tokens = {1, 2}
    /\ tokens[1].username # tokens[2].username
    /\ is_expired(tokens[1], now)
    /\ ret.op = "verify_token"
    /\ ret.val # None
    /\ ret.val[1].token = 2


----------------------------------------------------------------------------
(* One event moves the level by at most one tier *)

\* C27: the impacts of the table lie between -25 and +50, and for every
\* score and every action one event leaves the user's level in the same
\* tier, the next higher tier or the next lower tier.
C27_LevelMovesAtMostOneTier ==
    /\ \A a \in ImpactActions : impact_of(a) \in (0 - 25)..50
    /\ ret.op = "_update_reputation" =>
           LET before == TierOf(ret.val[1].before.level)
               after == TierOf(ret.val[1].after.level)
           IN after \in {before - 1, before, before + 1}

\* A completed deployment at score 0 lifted the user from the first tier to
\* the second.
C27_Witness ==
    /\ ret.op = "_update_reputation"
    /\ ret.val[1].action = "deployment_completed"
    /\ ret.val[1].before.score = 0
    /\ ret.val[1].before.level = "Novice"
    /\ ret.val[1].after.score = 50
    /\ ret.val[1].after.level = "Apprentice"


----------------------------------------------------------------------------
(* Whose records the log listing shows *)

\* The actions the handlers log for requests that carry no token: login
\* attempts and failures, and catalog fetches.
UnauthenticatedActions == {"auth_attempt", "auth_error", "api_entries_fetched"}

\* C28: the log listing returned to an authenticated user holds only records
\* of that user's own requests: every record carries that username, and none
\* was logged for a request without a token (a login attempt, a catalog
\* fetch) or for another user's login.
C28_LogListingIsOwnRecords ==
    [][\A h \in Headers, n \in LogsLimits :
          (Authenticated(h) /\ get_fibonrose_logs(h, n)) =>
              \A i \in 1..Len(ret'.val[1].body.logs) :
                  LET record == ret'.val[1].body.logs[i]
                  IN /\ record.user = auth_user(h)
                     /\ record.action \notin UnauthenticatedActions
                     /\ record.action = "auth_success" =>
                            record.metadata.username = auth_user(h)
      ]_vars


----------------------------------------------------------------------------
(* Deployment records in the event log *)

\* The number of records of user u with the given action among the first k
\* records of the log lg.
CountOf(lg, k, u, action) ==
    Cardinality({i \in 1..k : lg[i].user = u /\ lg[i].action = action})

\* In every prefix of lg no user has more ended deployments (completed or
\* failed) than started ones.
EndedWithinStarted(lg) ==
    \A u \in UserNames, k \in 0..Len(lg) :
        CountOf(lg, k, u, "deployment_completed") + CountOf(lg, k, u, "deployment_error")
            <= CountOf(lg, k, u, "deployment_started")

\* A stored deployment of user u with this name, url and status.
Stored(deps, u, m) ==
    \E i \in DOMAIN deps :
        /\ deps[i].user = u
        /\ deps[i].api_name = m.api_name
        /\ deps[i].url = m.deployment_url
        /\ deps[i].status = m.status

\* C29: in every prefix of the event log and for every user, with deploy
\* requests of that user running concurrently, the deployment_completed and
\* deployment_error records together never outnumber the
\* deployment_started records, and at the step that appends a
\* deployment_completed record the deployment it names is stored.
C29_EndedDeploysWereStarted ==
    [][/\ EndedWithinStarted(logs')
       /\ (/\ Len(logs') = Len(logs) + 1
           /\ LastRecord(logs').action = "deployment_completed") =>
              Stored(deployments', LastRecord(logs').user, LastRecord(logs').metadata)
      ]_vars

\* Two deploy requests of alice overlapped: the first failed while the
\* second was running, and the second then completed.
C29_Witness ==
    /\ Len(RecordsOf("alice")) = 5
    /\ RecordsOf("alice")[2].action = "deployment_started"
    /\ RecordsOf("alice")[3].action = "deployment_started"
    /\ RecordsOf("alice")[4].action = "deployment_error"
    /\ RecordsOf("alice")[5].action = "deployment_completed"
    /\ dep_ids(deployments) = {2}


----------------------------------------------------------------------------
(* Tokens are independent sessions *)

\* Token x is accepted by verify_token in the state after the step.
ValidAfter(x) == verify_result(tokens', users', x, now') # None

\* C30: every authenticate call adds one new token, distinct from all stored
\* ones, and leaves the earlier tokens as they were; the username bound to
\* a stored token never changes; revoking a token, or verify_token removing
\* an expired one, leaves every other token stored, unchanged, and valid if
\* it was valid.
C30_TokensAreIndependent ==
    [][/\ \A u \in UserNames :
            Authenticate(u) =>
                /\ issued' \notin DOMAIN tokens
                /\ DOMAIN tokens' = DOMAIN tokens \cup {issued'}
                /\ \A x \in DOMAIN tokens : tokens'[x] = tokens[x]
       /\ \A x \in DOMAIN tokens \cap DOMAIN tokens' :
            tokens'[x].username = tokens[x].username
       /\ \A t \in TokenValues :
            (RevokeToken(t) \/ VerifyToken(t)) =>
                \A x \in DOMAIN tokens \ {t} :
                    /\ x \in DOMAIN tokens'
                    /\ tokens'[x] = tokens[x]
                    /\ verify_result(tokens, users, x, now) # None => ValidAfter(x)
      ]_vars

\* alice holds two tokens issued a day apart; verify_token has just removed
\* the first, expired, and the second is still accepted.
C30_Witness ==
    /\ ret = [op |-> "verify_token", val |-> None]
    /\ issued = 2
    /\ DOMAIN users = {"alice"}
    /\ DOMAIN tokens = {2}
    /\ fromisoformat(tokens[2].created_at) = AUTH_EXPIRY_HOURS
    /\ verify_result(tokens, users, 2, now) # None

====
